---- MODULE Spec2Model ----
\* The Lunas game core as the blog posts of this repository show it:
\* the Game class (constructor, requestAnimationFrame loop, frame timing)
\* and the typed callback registry (addCallback / removeCallback).
\* The bodies of update()/draw() that call the registered callbacks and the
\* stop() operation are not shown in the posts; they follow the design text.
EXTENDS Integers, Sequences, FiniteSets, TLC

\* ---------------------------------------------------------------- bounds

\* Largest total number of registered callbacks (all kinds together).
MaxSubs == 3

\* Host clock readings are drawn from 0..MaxTime (milliseconds).
MaxTime == 1
MaxOps == 4

Times == 0..MaxTime

\* ------------------------------------------------------------- constants

\* `timePassed / 1000; // Convert to seconds`
MsPerSecond == 1000

\* The keys of GameCallback.
Kinds == {"update", "draw", "onFocus", "onBlur", "onResize"}

\* The kinds the frame loop dispatches, and that host code subscribes to here.
LoopKinds == {"update", "draw"}

\* The function values host code registers. Each is one function value
\* (compared by reference); what it does when invoked is its behaviour:
\*   plain        returns
\*   adder        calls addCallback(<its kind>, plain)
\*   selfRemover  calls removeCallback(<its kind>, itself)
\*   thrower      throws
\*   stopper      calls stop()
Callbacks == {"plain", "adder", "selfRemover", "thrower", "stopper"}

VARIABLES
  canvasPresent,   \* document.getElementById('lunasCanvas') finds an element
  glSupport,       \* best context canvas.getContext can give: webgl2/webgl/none
  state,           \* Created (no Game yet), Running, Stopped
  lastError,       \* the error the last `new Game()` threw to its caller, or ""
  gl,              \* this.gl
  lastFrameTime,   \* this.lastFrameTime
  rafQueue,        \* callbacks registered with requestAnimationFrame, pending
  callbacks,       \* this.callbacks: kind -> sequence of function values
  pc,              \* idle | loop (first-frame closure, before loop()) | run
  step,            \* which call of loop() is running: 0 none, 1, 2
  dt,              \* the dt of the running tick, a fraction [num, den]
  snapshot,        \* the sequence the running dispatch pass enumerates
  idx,             \* how many entries of snapshot the pass has invoked
  log,             \* what the running tick has done so far: <<event, kind, seq>>
  diagnostics,     \* subscriber failures reported during the running tick
  ops,             \* history: the addCallback/removeCallback calls made so far
  notified,        \* the last host notification dispatched and whom it invoked
  resetTime,       \* history: the clock reading the first frame stored
  elapsed,         \* history: the sum of the dts passed to update since then
  CONTAINER,       \* Service.CONTAINER: own properties, name -> service
  registered,      \* history: per name, the service last added and not since
                   \* removed or cleared
  getResult,       \* outcome of the last Service.get or field read of host code
  fields           \* the decorated fields of the TestGame instance, if created

envVars == <<canvasPresent, glSupport>>
gameVars == <<state, lastError, gl, lastFrameTime, rafQueue>>
tickVars == <<pc, step, dt, snapshot, idx, log, diagnostics>>
\* What the frame loop and the registry never touch.
auxVars == <<ops, notified, resetTime, elapsed, CONTAINER, registered,
             getResult, fields>>
vars == <<canvasPresent, glSupport, state, lastError, gl, lastFrameTime,
          rafQueue, callbacks, pc, step, dt, snapshot, idx, log, diagnostics,
          ops, notified, resetTime, elapsed, CONTAINER, registered,
          getResult, fields>>

\* ------------------------------------------------------- pure operations

Range(s) == {s[i] : i \in 1..Len(s)}

Count(s, x) == Cardinality({i \in 1..Len(s) : s[i] = x})

Total(cbs) == Len(cbs["update"]) + Len(cbs["draw"]) + Len(cbs["onFocus"])
              + Len(cbs["onBlur"]) + Len(cbs["onResize"])

\* Array.prototype.indexOf: the 0-based index of the first element equal to
\* x, or -1.
IndexOf(s, x) ==
  IF \E i \in 1..Len(s) : s[i] = x
  THEN (CHOOSE i \in 1..Len(s) : s[i] = x /\ \A j \in 1..(i-1) : s[j] # x) - 1
  ELSE -1

\* Array.prototype.splice(index, 1) with a 0-based index inside the array.
Splice(s, index) ==
  [i \in 1..(Len(s) - 1) |-> IF i <= index THEN s[i] ELSE s[i + 1]]

\* An addCallback that puts the callback in front (unshift).
addCallbackFront(cbs, type, callback) ==
  [cbs EXCEPT ![type] = <<callback>> \o @]

\* this.callbacks[type].push(callback)
addCallback(cbs, type, callback) ==
  [cbs EXCEPT ![type] = Append(@, callback)]

\* Array.prototype.lastIndexOf: the 0-based index of the last element equal
\* to x, or -1.
LastIndexOf(s, x) ==
  IF \E i \in 1..Len(s) : s[i] = x
  THEN (CHOOSE i \in 1..Len(s) :
          s[i] = x /\ \A j \in (i+1)..Len(s) : s[j] # x) - 1
  ELSE -1

\* A removeCallback that looks the callback up with lastIndexOf.
removeCallbackLast(cbs, type, callback) ==
  LET index == LastIndexOf(cbs[type], callback)
  IN  IF index # -1 THEN [cbs EXCEPT ![type] = Splice(@, index)] ELSE cbs

\* A removeCallback that tests `index > 0`: the first element is never removed.
removeCallbackSkipsFirst(cbs, type, callback) ==
  LET index == IndexOf(cbs[type], callback)
  IN  IF index > 0 THEN [cbs EXCEPT ![type] = Splice(@, index)] ELSE cbs

\* A removeCallback that drops every occurrence (filter).
removeCallbackAll(cbs, type, callback) ==
  [cbs EXCEPT ![type] = SelectSeq(@, LAMBDA c : c # callback)]

\* index = indexOf(callback); if (index !== -1) splice(index, 1)
removeCallback(cbs, type, callback) ==
  LET index == IndexOf(cbs[type], callback)
  IN  IF index # -1 THEN [cbs EXCEPT ![type] = Splice(@, index)] ELSE cbs

\* A conversion that forgets to divide.
ToSecondsUnscaled(timePassed) == [num |-> timePassed, den |-> 1]

\* timePassed / 1000, kept exact as a fraction.
ToSeconds(timePassed) == [num |-> timePassed, den |-> MsPerSecond]

\* A loop that clamps a negative timePassed to 0.
SampleClamped(now, last) ==
  ToSeconds(IF now - last < 0 THEN 0 ELSE now - last)

\* const timePassed = now - this.lastFrameTime; const dt = timePassed / 1000
Sample(now, last) == ToSeconds(now - last)

\* A loop that never lets the stored time go back.
StoreTimeMonotone(now, last) == IF now < last THEN last ELSE now

\* this.lastFrameTime = now
StoreTime(now, last) == now

NoDt == [num |-> 0, den |-> 1]

\* The sign of a fraction with a positive or negative denominator.
IsNegative(q) == q.num * q.den < 0

\* A loop that draws before it updates.
LoopCallsDrawFirst == <<"draw", "update">>

\* loop(): this.update(dt); this.draw();
LoopCalls == <<"update", "draw">>

\* A loop that requests the next frame before it updates and draws.
RequestPositionFirst == "first"

\* loop(): requestAnimationFrame is its last statement.
RequestPosition == "last"

\* getGLContext: webgl2, else webgl, else throw.
getGLContext(support) ==
  IF support = "webgl2" THEN [gl |-> "webgl2", error |-> ""]
  ELSE IF support = "webgl" THEN [gl |-> "webgl", error |-> ""]
  ELSE [gl |-> "none", error |-> "Unable to initialize WebGL context."]

\* A constructor that registers the first frame before it looks for the canvas.
ConstructEager(canvas, support) ==
  IF ~canvas
  THEN [error |-> "Canvas element with id \"lunasCanvas\" not found",
        gl |-> "none", raf |-> <<"first">>]
  ELSE LET c == getGLContext(support)
       IN  [error |-> c.error, gl |-> c.gl, raf |-> <<"first">>]

\* A constructor that registers loop() itself, without the closure that first
\* stores the current time.
ConstructNoReset(canvas, support) ==
  IF ~canvas
  THEN [error |-> "Canvas element with id \"lunasCanvas\" not found",
        gl |-> "none", raf |-> << >>]
  ELSE LET c == getGLContext(support)
       IN  IF c.error # ""
           THEN [error |-> c.error, gl |-> "none", raf |-> << >>]
           ELSE [error |-> "", gl |-> c.gl, raf |-> <<"loop">>]

\* new Game(): what it throws, the context it keeps, what it registers with
\* requestAnimationFrame.
Construct(canvas, support) ==
  IF ~canvas
  THEN [error |-> "Canvas element with id \"lunasCanvas\" not found",
        gl |-> "none", raf |-> << >>]
  ELSE LET c == getGLContext(support)
       IN  IF c.error # ""
           THEN [error |-> c.error, gl |-> "none", raf |-> << >>]
           ELSE [error |-> "", gl |-> c.gl, raf |-> <<"first">>]

\* ------------------------------------------------------------------ Init

\* ------------------------------------------------- the service container

\* Names host code uses with the container; the last is one of the property
\* names every object created as {} inherits.
Names == {"testService", "testService2", "toString"}

Inherited == {"toString"}

\* Values host code passes to Service.add: two service objects and the
\* number 0.
Services == {"TestService", "TestService2", "zero"}

\* The values for which !value is true, among those that occur.
Falsy == {"zero", "undefined"}

\* The container has no own property under a name.
NoEntry == "none"

\* CONTAINER = {}
EmptyContainer == [name \in Names |-> NoEntry]

\* Service.CONTAINER[name]: the own property, else the inherited one, else
\* undefined.
Lookup(container, name) ==
  IF container[name] # NoEntry THEN container[name]
  ELSE IF name \in Inherited THEN "inherited"
  ELSE "undefined"

Threw(name) == [name |-> name, value |-> "undefined", threw |-> TRUE]

Returned(name, value) == [name |-> name, value |-> value, threw |-> FALSE]

\* Service.get(name)
get(container, name) ==
  LET service == Lookup(container, name)
  IN  IF service \in Falsy THEN Threw(name) ELSE Returned(name, service)

\* Service.add(name, service)
add(container, name, service) == [container EXCEPT ![name] = service]

\* Service.remove(name)
remove(container, name) ==
  IF Lookup(container, name) \notin Falsy
  THEN [container EXCEPT ![name] = NoEntry]
  ELSE container

\* Service.clear(): deletes every own property.
clear(container) == [name \in Names |-> NoEntry]

\* The decorated fields of TestGame and the argument each passes to inject;
\* "" is no argument.
Decorated == [testService |-> "", otherName |-> "testService2"]

FieldNames == DOMAIN Decorated

\* inject: const serviceName = name || (context.name as string)
serviceName(name, field) == IF name = "" THEN field ELSE name

\* inject: the function the decorator returns for a field.
inject(container, name, field) == get(container, serviceName(name, field))

NoFields == [created |-> FALSE, testService |-> "undefined",
             otherName |-> "undefined"]

NoNotification == [kind |-> "", calls |-> << >>, failed |-> << >>]

NoResult == [name |-> "", value |-> "undefined", threw |-> FALSE]

ZeroSeconds == [num |-> 0, den |-> MsPerSecond]

\* Nothing has been recorded, no service is registered, no TestGame exists.
AuxInit ==
  /\ ops = << >>
  /\ notified = NoNotification
  /\ resetTime = 0
  /\ elapsed = ZeroSeconds
  /\ CONTAINER = EmptyContainer
  /\ registered = EmptyContainer
  /\ getResult = NoResult
  /\ fields = NoFields

Init ==
  /\ AuxInit
  /\ canvasPresent \in BOOLEAN
  /\ glSupport \in {"webgl2", "webgl", "none"}
  /\ state = "Created"
  /\ lastError = ""
  /\ gl = "none"
  /\ lastFrameTime = 0
  /\ rafQueue = << >>
  /\ callbacks = [k \in Kinds |-> << >>]
  /\ pc = "idle"
  /\ step = 0
  /\ dt = NoDt
  /\ snapshot = << >>
  /\ idx = 0
  /\ log = << >>
  /\ diagnostics = << >>

\* ---------------------------------------------------- dispatch (design)

\* A pass that enumerates the live sequence instead of a snapshot of it.
EnumeratedLive(snap, live) == live

\* The sequence a dispatch pass enumerates: the snapshot taken when the pass
\* began, whatever subscribers do to the live sequence meanwhile.
Enumerated(snap, live) == snap

\* A pass that a subscriber failure aborts: the rest is skipped.
AbortAt(i, n) == IF i + 1 < n THEN n ELSE i + 1

\* Where a pass continues after the subscriber at position i failed: at the
\* next subscriber. n is the length of the enumerated sequence.
ResumeAt(i, n) == i + 1

\* A stop() that only marks the loop stopped and leaves the scheduler alone.
StopKeepsRegistration(queue) == queue

\* stop(): deregisters the loop from the scheduler.
StopDeregisters(queue) == << >>

\* A loop that forgets to request the next frame.
RequestNone(queue) == queue

\* requestAnimationFrame(() => this.loop())
RequestLoop(queue) == Append(queue, "loop")

\* The kind the running pass dispatches.
CurKind == LoopCalls[step]

\* --------------------------------------------------------------- actions

\* The host page gains or loses the canvas or its WebGL support before the
\* game is created.
SetEnvironment ==
  /\ state = "Created"
  /\ pc = "idle"
  /\ \E c \in BOOLEAN, g \in {"webgl2", "webgl", "none"} :
       /\ canvasPresent' = c
       /\ glSupport' = g
  /\ UNCHANGED <<gameVars, callbacks, tickVars, auxVars>>

\* new Game()
Constructor ==
  /\ state = "Created"
  /\ pc = "idle"
  /\ LET r == Construct(canvasPresent, glSupport)
     IN  /\ lastError' = r.error
         /\ gl' = r.gl
         /\ rafQueue' = rafQueue \o r.raf
         /\ state' = IF r.error = "" THEN "Running" ELSE "Created"
  /\ UNCHANGED <<envVars, lastFrameTime, callbacks, tickVars, auxVars>>

\* game.addCallback(type, cb) called by host code between frames: what it
\* does to the game.
AddCallbackStep(type, cb) ==
  /\ state # "Created"
  /\ pc = "idle"
  /\ Total(callbacks) < MaxSubs
  /\ callbacks' = addCallback(callbacks, type, cb)
  /\ UNCHANGED <<envVars, gameVars, tickVars>>

AddCallback(type, cb) == AddCallbackStep(type, cb) /\ UNCHANGED auxVars

\* game.removeCallback(type, cb) called by host code between frames: what it
\* does to the game.
RemoveCallbackStep(type, cb) ==
  /\ state # "Created"
  /\ pc = "idle"
  /\ callbacks' = removeCallback(callbacks, type, cb)
  /\ UNCHANGED <<envVars, gameVars, tickVars>>

RemoveCallback(type, cb) == RemoveCallbackStep(type, cb) /\ UNCHANGED auxVars

\* game.stop() called by host code between frames.
Stop ==
  /\ state = "Running"
  /\ pc = "idle"
  /\ state' = "Stopped"
  /\ rafQueue' = StopDeregisters(rafQueue)
  /\ UNCHANGED <<envVars, lastError, gl, lastFrameTime, callbacks, tickVars,
                 auxVars>>

\* The scheduler runs the closure the constructor registered:
\* this.lastFrameTime = performance.now(), then this.loop().
FirstFrameStep ==
  /\ pc = "idle"
  /\ rafQueue # << >>
  /\ Head(rafQueue) = "first"
  /\ rafQueue' = Tail(rafQueue)
  /\ \E now \in Times : lastFrameTime' = now
  /\ pc' = "loop"
  /\ log' = <<<<"reset", "", << >>>>>>
  /\ UNCHANGED <<envVars, state, lastError, gl, callbacks,
                 step, dt, snapshot, idx, diagnostics>>

FirstFrame == FirstFrameStep /\ UNCHANGED auxVars

\* The scheduler runs a closure loop() registered: this.loop().
NextFrame ==
  /\ pc = "idle"
  /\ rafQueue # << >>
  /\ Head(rafQueue) = "loop"
  /\ rafQueue' = Tail(rafQueue)
  /\ pc' = "loop"
  /\ UNCHANGED <<envVars, state, lastError, gl, lastFrameTime, callbacks,
                 step, dt, snapshot, idx, log, diagnostics, auxVars>>

\* loop() up to its first call: samples the clock, computes dt, starts the
\* dispatch pass of its first call. The log of the tick starts here.
LoopSampleStep ==
  /\ pc = "loop"
  /\ \E now \in Times :
       /\ dt' = Sample(now, lastFrameTime)
       /\ lastFrameTime' = StoreTime(now, lastFrameTime)
  /\ rafQueue' = IF RequestPosition = "first"
                 THEN RequestLoop(rafQueue) ELSE rafQueue
  /\ pc' = "run"
  /\ step' = 1
  /\ snapshot' = callbacks[LoopCalls[1]]
  /\ idx' = 0
  /\ log' = <<<<"begin", LoopCalls[1], callbacks[LoopCalls[1]]>>>>
  /\ diagnostics' = << >>
  /\ UNCHANGED <<envVars, state, lastError, gl, callbacks>>

LoopSample == LoopSampleStep /\ UNCHANGED auxVars

\* The running pass invokes its next subscriber, which does what it does.
Invoke ==
  /\ pc = "run"
  /\ idx < Len(Enumerated(snapshot, callbacks[CurKind]))
  /\ LET kind == CurKind
         seq == Enumerated(snapshot, callbacks[kind])
         cb == seq[idx + 1]
     IN  /\ log' = Append(log, <<"call", kind, <<cb>>>>)
         /\ idx' = IF cb = "thrower" THEN ResumeAt(idx, Len(seq)) ELSE idx + 1
         /\ diagnostics' = IF cb = "thrower"
                           THEN Append(diagnostics, <<kind, cb>>)
                           ELSE diagnostics
         /\ callbacks' =
              IF cb = "adder" /\ Total(callbacks) < MaxSubs
              THEN addCallback(callbacks, kind, "plain")
              ELSE IF cb = "selfRemover"
              THEN removeCallback(callbacks, kind, cb)
              ELSE callbacks
         /\ IF cb = "stopper"
            THEN /\ state' = "Stopped"
                 /\ rafQueue' = StopDeregisters(rafQueue)
            ELSE UNCHANGED <<state, rafQueue>>
  /\ UNCHANGED <<envVars, lastError, gl, lastFrameTime, pc, step, dt, snapshot,
                 auxVars>>

\* The first call of loop() returns and loop() makes its second call.
SecondCall ==
  /\ pc = "run"
  /\ step = 1
  /\ idx >= Len(Enumerated(snapshot, callbacks[CurKind]))
  /\ step' = 2
  /\ snapshot' = callbacks[LoopCalls[2]]
  /\ idx' = 0
  /\ log' = log \o <<<<"end", LoopCalls[1], << >>>>,
                      <<"begin", LoopCalls[2], callbacks[LoopCalls[2]]>>>>
  /\ UNCHANGED <<envVars, gameVars, callbacks, pc, dt, diagnostics, auxVars>>

\* The second call returns; loop() requests the next frame and returns to
\* the scheduler.
LoopEnd ==
  /\ pc = "run"
  /\ step = 2
  /\ idx >= Len(Enumerated(snapshot, callbacks[CurKind]))
  /\ rafQueue' = IF RequestPosition = "last"
                 THEN RequestLoop(rafQueue) ELSE rafQueue
  /\ pc' = "idle"
  /\ step' = 0
  /\ dt' = NoDt
  /\ snapshot' = << >>
  /\ idx' = 0
  /\ log' = << >>
  /\ diagnostics' = << >>
  /\ UNCHANGED <<envVars, state, lastError, gl, lastFrameTime, callbacks,
                 auxVars>>

Next ==
  \/ SetEnvironment
  \/ Constructor
  \/ \E type \in LoopKinds, cb \in Callbacks : AddCallback(type, cb)
  \/ \E type \in LoopKinds, cb \in Callbacks : RemoveCallback(type, cb)
  \/ Stop
  \/ FirstFrame
  \/ NextFrame
  \/ LoopSample
  \/ Invoke
  \/ SecondCall
  \/ LoopEnd

Spec == Init /\ [][Next]_vars

TypeOK ==
  /\ canvasPresent \in BOOLEAN
  /\ state \in {"Created", "Running", "Stopped"}
  /\ lastFrameTime \in Times
  /\ Len(rafQueue) <= 2
  /\ \A k \in Kinds : Range(callbacks[k]) \subseteq Callbacks
  /\ Total(callbacks) <= MaxSubs
  /\ pc \in {"idle", "loop", "run"}
  /\ step \in 0..2
  /\ idx \in 0..Len(snapshot)
  /\ Len(ops) <= MaxOps
  /\ resetTime \in Times
  /\ elapsed.den = MsPerSecond
  /\ \A name \in Names :
       /\ CONTAINER[name] \in Services \cup {NoEntry}
       /\ registered[name] \in Services \cup {NoEntry}
  /\ fields.created \in BOOLEAN

\* The code runs each frame callback to completion, and the scheduler runs
\* every frame callback registered with it.
FairSpec ==
  /\ Spec
  /\ WF_vars(FirstFrame)
  /\ WF_vars(NextFrame)
  /\ WF_vars(LoopSample)
  /\ WF_vars(Invoke)
  /\ WF_vars(SecondCall)
  /\ WF_vars(LoopEnd)

\* ------------------------------------------------- host code and services

gameAndHistory == <<envVars, gameVars, callbacks, tickVars,
                    ops, notified, resetTime, elapsed>>

\* Service.add(name, service) called by host code.
ServiceAdd(name, service) ==
  /\ CONTAINER' = add(CONTAINER, name, service)
  /\ registered' = [registered EXCEPT ![name] = service]
  /\ UNCHANGED <<gameAndHistory, getResult, fields>>

\* Service.remove(name) called by host code.
ServiceRemove(name) ==
  /\ CONTAINER' = remove(CONTAINER, name)
  /\ registered' = [registered EXCEPT ![name] = NoEntry]
  /\ UNCHANGED <<gameAndHistory, getResult, fields>>

\* Service.clear() called by host code.
ServiceClear ==
  /\ CONTAINER' = clear(CONTAINER)
  /\ registered' = EmptyContainer
  /\ UNCHANGED <<gameAndHistory, getResult, fields>>

\* Service.get(name) called by host code.
ServiceGet(name) ==
  /\ getResult' = get(CONTAINER, name)
  /\ UNCHANGED <<gameAndHistory, CONTAINER, registered, fields>>

\* new TestGame(): each decorated field is initialised with what the function
\* returned by its decorator returns; if one throws, so does the constructor.
NewTestGame ==
  /\ ~fields.created
  /\ LET init == [f \in FieldNames |-> inject(CONTAINER, Decorated[f], f)]
     IN  IF \E f \in FieldNames : init[f].threw
         THEN /\ getResult' = Threw(init[CHOOSE f \in FieldNames :
                                            init[f].threw].name)
              /\ UNCHANGED fields
         ELSE /\ fields' = [created |-> TRUE,
                            testService |-> init["testService"].value,
                            otherName |-> init["otherName"].value]
              /\ UNCHANGED getResult
  /\ UNCHANGED <<gameAndHistory, CONTAINER, registered>>

\* Host code reads a decorated field of the TestGame instance.
ReadField(field) ==
  /\ fields.created
  /\ getResult' = Returned(field, fields[field])
  /\ UNCHANGED <<gameAndHistory, CONTAINER, registered, fields>>

NextService ==
  \/ \E name \in Names, service \in Services : ServiceAdd(name, service)
  \/ \E name \in Names : ServiceRemove(name)
  \/ ServiceClear
  \/ \E name \in Names : ServiceGet(name)
  \/ NewTestGame
  \/ \E field \in FieldNames : ReadField(field)

SpecService == Init /\ [][NextService]_vars

\* ------------------------------------------------- the loop with its clock traced

\* Subscribers that leave the registry and the loop alone.
Quiet == {"plain", "thrower"}

\* a + b for fractions.
Plus(a, b) ==
  IF a.den = b.den
  THEN [num |-> a.num + b.num, den |-> a.den]
  ELSE [num |-> a.num * b.den + b.num * a.den, den |-> a.den * b.den]

\* The first frame callback, with the reading it stored written down.
TracedFirstFrame ==
  /\ FirstFrameStep
  /\ resetTime' = lastFrameTime'
  /\ elapsed' = ZeroSeconds
  /\ UNCHANGED <<ops, notified, CONTAINER, registered, getResult, fields>>

\* loop() up to its first call, with the dt it passes to update added up.
TracedLoopSample ==
  /\ LoopSampleStep
  /\ elapsed' = Plus(elapsed, dt')
  /\ UNCHANGED <<ops, notified, resetTime, CONTAINER, registered, getResult,
                 fields>>

NextClock ==
  \/ SetEnvironment
  \/ Constructor
  \/ \E type \in LoopKinds, cb \in Quiet : AddCallback(type, cb)
  \/ TracedFirstFrame
  \/ NextFrame
  \/ TracedLoopSample
  \/ Invoke
  \/ SecondCall
  \/ LoopEnd

SpecClock == Init /\ [][NextClock]_vars

\* ------------------------------------------------- host code and the registry

\* The kinds dispatched on a host notification, outside the ticks.
NotifyKinds == Kinds \ LoopKinds

\* The kinds host code subscribes to and unsubscribes from in these runs: one
\* dispatched by the loop and two dispatched on notifications.
HostKinds == {"update", "onFocus", "onResize"}

serviceVars == <<CONTAINER, registered, getResult, fields>>

\* game.addCallback(type, cb) by host code, with the call written down.
RecordedAdd(type, cb) ==
  /\ Len(ops) < MaxOps
  /\ AddCallbackStep(type, cb)
  /\ ops' = Append(ops, <<"add", type, cb>>)
  /\ UNCHANGED <<notified, resetTime, elapsed, serviceVars>>

\* game.removeCallback(type, cb) by host code, with the call written down.
RecordedRemove(type, cb) ==
  /\ Len(ops) < MaxOps
  /\ RemoveCallbackStep(type, cb)
  /\ ops' = Append(ops, <<"remove", type, cb>>)
  /\ UNCHANGED <<notified, resetTime, elapsed, serviceVars>>

\* A host notification forwarded to the game between frames: one pass over
\* the subscribers of its kind, all of which leave the registry alone.
Notify(kind) ==
  /\ state = "Running"
  /\ pc = "idle"
  /\ LET calls == Enumerated(callbacks[kind], callbacks[kind])
     IN  notified' = [kind |-> kind,
                      calls |-> calls,
                      failed |-> SelectSeq(calls, LAMBDA c : c = "thrower")]
  /\ UNCHANGED <<envVars, gameVars, callbacks, tickVars,
                 ops, resetTime, elapsed, serviceVars>>

NextRegistry ==
  \/ SetEnvironment
  \/ Constructor
  \/ \E type \in HostKinds, cb \in Quiet : RecordedAdd(type, cb)
  \/ \E type \in HostKinds, cb \in Quiet : RecordedRemove(type, cb)
  \/ \E kind \in HostKinds \cap NotifyKinds : Notify(kind)

SpecRegistry == Init /\ [][NextRegistry]_vars

\* ------------------------------------------------- reading the tick log

IsEvent(e, ev, k) == e[1] = ev /\ e[2] = k

\* The subscribers of kind k invoked among the first n entries of the log.
CallsUpTo(k, n) ==
  LET sel == SelectSeq(SubSeq(log, 1, n), LAMBDA e : IsEvent(e, "call", k))
  IN  [i \in 1..Len(sel) |-> sel[i][3][1]]

\* The subscribers of kind k the running tick has invoked so far, in order.
CallsOf(k) == CallsUpTo(k, Len(log))

Began(k) == \E i \in 1..Len(log) : IsEvent(log[i], "begin", k)

\* The sequence for kind k as it was when the tick's pass of k began.
BeginSnapshot(k) ==
  log[CHOOSE i \in 1..Len(log) : IsEvent(log[i], "begin", k)][3]

\* The running pass has nothing left to invoke.
PassDone ==
  /\ pc = "run"
  /\ idx >= Len(Enumerated(snapshot, callbacks[CurKind]))

\* s without the first element equal to x.
RECURSIVE RemoveFirst(_, _)
RemoveFirst(s, x) ==
  IF s = << >> THEN << >>
  ELSE IF Head(s) = x THEN Tail(s)
  ELSE <<Head(s)>> \o RemoveFirst(Tail(s), x)

\* The elements of s that are in the set keep, in order.
Filter(s, keep) == SelectSeq(s, LAMBDA x : x \in keep)

\* A step in which the running pass invokes the subscriber cb.
Invokes(cb) ==
  /\ pc = "run"
  /\ pc' = "run"
  /\ step' = step
  /\ Len(log') = Len(log) + 1
  /\ log'[Len(log')] = <<"call", CurKind, <<cb>>>>

\* ------------------------------------------------------------------- C1

\* C1: in every tick, every event of the draw dispatch comes after the end of
\* the update dispatch, and by then the update dispatch has invoked exactly
\* the update subscribers it began with, in their order; no update subscriber
\* is invoked after the draw dispatch began.
C1_UpdateBeforeDraw ==
  \A i \in 1..Len(log) :
    /\ log[i][2] = "draw" =>
         \E j \in 1..(i - 1) :
           /\ IsEvent(log[j], "end", "update")
           /\ CallsUpTo("update", j) = BeginSnapshot("update")
    /\ log[i][2] = "update" =>
         \A j \in 1..(i - 1) : log[j][2] # "draw"

\* A draw subscriber is being invoked in a tick whose update dispatch invoked
\* two subscribers.
C1_Witness ==
  /\ Len(CallsOf("draw")) >= 1
  /\ Len(CallsOf("update")) >= 2

\* ------------------------------------------------------------------- C2

C3_RemoveStopsInvocation ==
  [][\A type \in LoopKinds, cb \in Callbacks :
       RemoveCallback(type, cb) =>
         /\ cb \notin Range(callbacks'[type])
         /\ cb \notin Range(callbacks[type]) => callbacks' = callbacks]_vars

\* C3 amended: removeCallback(type, cb) takes away one occurrence of cb, so
\* the next dispatch does not invoke cb when that was its only occurrence
\* and still invokes the remaining ones otherwise; removing an absent cb
\* changes nothing; a dispatch invokes only what the sequence held when the
\* pass began.
C3_RemoveOneOccurrence ==
  /\ [][\A type \in LoopKinds, cb \in Callbacks :
          RemoveCallback(type, cb) =>
            /\ cb \in Range(callbacks[type]) =>
                 Count(callbacks'[type], cb) = Count(callbacks[type], cb) - 1
            /\ Count(callbacks[type], cb) = 1 =>
                 cb \notin Range(callbacks'[type])
            /\ cb \notin Range(callbacks[type]) => callbacks' = callbacks]_vars
  /\ [][Invokes("selfRemover") =>
          Count(callbacks'[CurKind], "selfRemover")
            = Count(callbacks[CurKind], "selfRemover") - 1]_vars
  /\ [][\A i \in 1..Len(log') :
          (i > Len(log) /\ log'[i][1] = "begin") =>
            log'[i][3] = callbacks'[log'[i][2]]]_vars
  /\ [](\A i \in 1..Len(log) :
          log[i][1] = "call" =>
            log[i][3][1] \in Range(BeginSnapshot(log[i][2])))

\* A callback registered twice has removed itself once and is still
\* registered once.
C3_Witness ==
  /\ pc = "run"
  /\ Count(snapshot, "selfRemover") = 2
  /\ Count(CallsOf(CurKind), "selfRemover") = 1
  /\ Count(callbacks[CurKind], "selfRemover") = 1

\* ------------------------------------------------------------------- C4

\* C4: addCallback appends, so a callback added twice sits at two positions;
\* a dispatch pass that ends has invoked exactly the sequence it began with,
\* position by position (a callback held twice is invoked twice, at its two
\* positions); removeCallback deletes the first occurrence only and keeps
\* the order of everything else.
C4_DuplicatesAndFirstRemoval ==
  /\ [][\A type \in LoopKinds, cb \in Callbacks :
          AddCallback(type, cb) =>
            callbacks'[type] = Append(callbacks[type], cb)]_vars
  /\ [][\A type \in LoopKinds, cb \in Callbacks :
          RemoveCallback(type, cb) =>
            callbacks'[type] = RemoveFirst(callbacks[type], cb)]_vars
  /\ [][Invokes("selfRemover") =>
          callbacks'[CurKind] = RemoveFirst(callbacks[CurKind], "selfRemover")]_vars
  /\ [](PassDone =>
          /\ CallsOf(CurKind) = BeginSnapshot(CurKind)
          /\ \A cb \in Callbacks :
               Count(CallsOf(CurKind), cb) = Count(BeginSnapshot(CurKind), cb))

\* A pass over three subscribers, the first and third the same callback, has
\* invoked the first, which removed itself once: the live sequence is the
\* second subscriber followed by the remaining occurrence.
C4_Witness ==
  /\ pc = "run"
  /\ Len(snapshot) = 3
  /\ snapshot[1] = "selfRemover"
  /\ snapshot[2] # "selfRemover"
  /\ snapshot[3] = "selfRemover"
  /\ idx = 1
  /\ callbacks[CurKind] = <<snapshot[2], "selfRemover">>

\* ------------------------------------------------------------------- C5

\* C5: when an update pass ends, it has invoked "plain" exactly as often as
\* the sequence held it when the pass began, also when an adder added it
\* during the pass; every subscriber the pass began with was invoked, and a
\* subscriber that removed itself in each of its invocations is no longer in
\* the sequence; and each pass begins with the sequence as it then is, so
\* the added callback is invoked from the next pass on and the removed one
\* no more.
C5_MutationDuringDispatch ==
  /\ [](PassDone /\ CurKind = "update" =>
          /\ Count(CallsOf("update"), "plain")
               = Count(BeginSnapshot("update"), "plain")
          /\ Len(CallsOf("update")) = Len(BeginSnapshot("update"))
          /\ "selfRemover" \in Range(BeginSnapshot("update")) =>
               "selfRemover" \notin Range(callbacks["update"]))
  /\ [][pc' = "run" /\ (pc = "loop" \/ step' # step) =>
          snapshot' = callbacks'[LoopCalls[step']]]_vars

\* An update pass ended in which an adder added "plain" and a subscriber
\* removed itself.
C5_Witness ==
  /\ PassDone
  /\ CurKind = "update"
  /\ "adder" \in Range(snapshot)
  /\ "selfRemover" \in Range(snapshot)
  /\ Count(callbacks["update"], "plain") > Count(snapshot, "plain")
  /\ "selfRemover" \notin Range(callbacks["update"])

\* ------------------------------------------------------------------- C6

\* The callbacks no subscriber of this model adds or removes.
Untouched == Callbacks \ {"plain", "selfRemover"}

\* C6: a dispatch pass, whatever its subscribers add or remove meanwhile,
\* always has a next subscriber to invoke until it is done, has invoked
\* exactly the first idx entries of the sequence it began with, and when it
\* is done has invoked every one of them once, in order; the callbacks
\* nobody added or removed are in the live sequence as often and in the same
\* order as before, and every sequence holds only registered callbacks.
C6_PassIsStable ==
  /\ pc = "run" =>
       /\ PassDone \/ ENABLED Invoke
       /\ idx <= Len(BeginSnapshot(CurKind))
       /\ CallsOf(CurKind) = SubSeq(BeginSnapshot(CurKind), 1, idx)
       /\ Filter(callbacks[CurKind], Untouched)
            = Filter(BeginSnapshot(CurKind), Untouched)
  /\ PassDone => idx = Len(BeginSnapshot(CurKind))
  /\ \A k \in Kinds : Range(callbacks[k]) \subseteq Callbacks
  /\ Total(callbacks) <= MaxSubs

\* A pass ended whose first subscriber removed itself, with two more
\* subscribers behind it.
C6_Witness ==
  /\ PassDone
  /\ Len(snapshot) = 3
  /\ snapshot[1] = "selfRemover"
  /\ snapshot[2] \in Untouched
  /\ callbacks[CurKind] # snapshot

\* ------------------------------------------------------------------- C7

CanvasNotFound == "Canvas element with id \"lunasCanvas\" not found"

\* C7: creating the game without the canvas throws the canvas-not-found
\* error, leaves no game (state Created) and registers nothing with the
\* scheduler; while no game was created nothing is pending or dispatched;
\* creating it with the canvas and a WebGL context succeeds, also after a
\* failed attempt, and registers the first frame.
C7_FailedStart ==
  /\ [][Constructor /\ ~canvasPresent =>
          /\ lastError' = CanvasNotFound
          /\ state' = "Created"
          /\ rafQueue' = << >>]_vars
  /\ [][Constructor /\ canvasPresent /\ glSupport # "none" =>
          /\ lastError' = ""
          /\ state' = "Running"
          /\ rafQueue' = <<"first">>]_vars
  /\ [](state = "Created" =>
          /\ rafQueue = << >>
          /\ pc = "idle"
          /\ log = << >>)

\* A first attempt failed for want of the canvas; the page now has it.
C7_Witness ==
  /\ state = "Created"
  /\ lastError = CanvasNotFound
  /\ canvasPresent
  /\ glSupport # "none"

\* ------------------------------------------------------------------- C8

C9_DrawFailureIsolated ==
  PassDone /\ CurKind = "draw" =>
    /\ CallsOf("draw") = BeginSnapshot("draw")
    /\ Count(SelectSeq(diagnostics, LAMBDA d : d[1] = "draw"),
             <<"draw", "thrower">>)
         = Count(BeginSnapshot("draw"), "thrower")

\* A draw pass ended whose first subscriber threw and whose second did not.
C9_Witness ==
  /\ PassDone
  /\ CurKind = "draw"
  /\ Len(snapshot) >= 2
  /\ snapshot[1] = "thrower"
  /\ snapshot[2] # "thrower"
  /\ Len(CallsOf("draw")) = Len(snapshot)

\* ------------------------------------------------------------------ C10

\* C10: a subscriber failure leaves the registry, the scheduler and the tick
\* as they are; the tick in which a subscriber failed still ends with both
\* dispatches complete and with the next frame requested; and unless the
\* loop is stopped, the next tick begins.
C10_FailureNeverStopsLoop ==
  /\ [][Len(diagnostics') > Len(diagnostics) =>
          /\ callbacks' = callbacks
          /\ rafQueue' = rafQueue
          /\ pc' = "run"
          /\ step' = step]_vars
  /\ [][diagnostics # << >> /\ pc = "run" /\ pc' = "idle" =>
          /\ rafQueue' = Append(rafQueue, "loop")
          /\ callbacks' = callbacks
          /\ IsEvent(log[Len(log)], "call", "draw")
               \/ IsEvent(log[Len(log)], "begin", "draw")
          /\ CallsOf("update") = BeginSnapshot("update")
          /\ CallsOf("draw") = BeginSnapshot("draw")]_vars
  /\ (diagnostics # << >>) ~> (pc = "loop" \/ state = "Stopped")

\* The draw pass of a tick ended in which an update subscriber had thrown
\* with another subscriber behind it.
C10_Witness ==
  /\ PassDone
  /\ CurKind = "draw"
  /\ Len(BeginSnapshot("update")) >= 2
  /\ BeginSnapshot("update")[1] = "thrower"
  /\ <<"update", "thrower">> \in Range(diagnostics)
  /\ state = "Running"

\* ------------------------------------------------- the first frame

\* The closure registered by the constructor has stored the current time and
\* is about to call loop().
IsFirstTick == pc = "loop" /\ log # << >> /\ IsEvent(log[1], "reset", "")

\* C11 as stated: the first dt passed to update is zero whatever the host
\* clock reads.
C11_FirstDtAlwaysZero ==
  [][IsFirstTick /\ pc' = "run" => dt'.num = 0]_vars

\* C11: the stored time is left at its initial value by the constructor and
\* until the first frame callback runs; it is set to the current time by
\* that callback, which is registered once and never again; and the first
\* dt passed to update is (the reading loop() takes minus the reading the
\* callback stored) / 1000.
C11_ResetOnFirstFrame ==
  /\ [](state = "Created" \/ "first" \in Range(rafQueue) => lastFrameTime = 0)
  /\ [][state = "Created" /\ state' = "Running" =>
          /\ lastFrameTime' = lastFrameTime
          /\ rafQueue' = <<"first">>]_vars
  /\ [][pc = "idle" /\ pc' = "loop" /\ rafQueue # << >>
          /\ Head(rafQueue) = "first" =>
          /\ IsFirstTick'
          /\ "first" \notin Range(rafQueue')]_vars
  /\ [][state # "Created" /\ "first" \notin Range(rafQueue) =>
          "first" \notin Range(rafQueue')]_vars
  /\ [][IsFirstTick /\ pc' = "run" =>
          dt' = ToSeconds(lastFrameTime' - lastFrameTime)]_vars

\* The first frame callback has stored a reading other than the initial
\* value and loop() is about to take its own.
C11_Witness == IsFirstTick /\ lastFrameTime > 0 /\ rafQueue = << >>

\* ------------------------------------------------------------------ C12

\* C12: a frame callback starts only when no tick is running; while a tick
\* runs no frame callback is registered, since loop() requests the next one
\* only as its last statement; and a tick ends only when its update and
\* draw dispatches have both invoked every subscriber they began with.
C12_TicksDoNotOverlap ==
  /\ [](pc # "idle" => rafQueue = << >>)
  /\ [][pc' = "loop" => pc = "idle" /\ log = << >>]_vars
  /\ [][pc = "run" /\ pc' = "idle" =>
          /\ Began("update")
          /\ Began("draw")
          /\ CallsOf("update") = BeginSnapshot("update")
          /\ CallsOf("draw") = BeginSnapshot("draw")
          /\ rafQueue' = <<"loop">>]_vars

\* A later tick is about to sample the clock, with subscribers of both kinds
\* registered.
C12_Witness ==
  /\ pc = "loop"
  /\ ~IsFirstTick
  /\ callbacks["update"] # << >>
  /\ callbacks["draw"] # << >>

\* ------------------------------------------------------------------ C13

\* C13 as stated: for every name, Service.get returns the service last added
\* under it and not since removed or cleared, and throws exactly when there
\* is none.
C13_GetReturnsRegistered ==
  \A name \in Names :
    get(CONTAINER, name) =
      IF registered[name] = NoEntry
      THEN Threw(name)
      ELSE Returned(name, registered[name])

\* ------------------------------------------------------------------ C14

\* C14 as stated: a read of a decorated field gives what Service.get gives
\* at that moment for the name passed to inject, else for the field name.
C14_FieldReadsContainer ==
  fields.created =>
    \A f \in FieldNames :
      Returned(f, fields[f]).value =
        get(CONTAINER, serviceName(Decorated[f], f)).value

\* ------------------------------------------------------------------ C15

\* What the calls in history leave registered for kind k: each add appends
\* its callback, each remove drops the first occurrence of its callback.
RECURSIVE Replay(_, _)
Replay(history, k) ==
  IF history = << >> THEN << >>
  ELSE LET op == history[Len(history)]
           before == Replay(SubSeq(history, 1, Len(history) - 1), k)
       IN  IF op[2] # k THEN before
           ELSE IF op[1] = "add" THEN Append(before, op[3])
           ELSE RemoveFirst(before, op[3])

\* C15: after any sequence of addCallback and removeCallback calls the
\* sequence of every kind is the added callbacks in insertion order without
\* the first occurrences removed, and a dispatch whose subscribers leave the
\* registry alone invokes exactly that sequence, in that order.
C15_SequenceIsHistory ==
  /\ [](\A k \in Kinds : callbacks[k] = Replay(ops, k))
  /\ [][notified' # notified =>
          /\ notified'.calls = Replay(ops, notified'.kind)
          /\ callbacks' = callbacks]_vars

\* A notification was dispatched to two subscribers left, in their order,
\* by calls of which one removed a registered callback.
C15_Witness ==
  /\ Len(notified.calls) >= 2
  /\ notified.calls = callbacks[notified.kind]
  /\ \E i \in 1..Len(ops) :
       /\ ops[i][1] = "remove"
       /\ Replay(SubSeq(ops, 1, i), ops[i][2])
            # Replay(SubSeq(ops, 1, i - 1), ops[i][2])

\* ------------------------------------------------------------------ C20

\* C20: addCallback(type, cb) appends cb to the sequence of type and
\* removeCallback(type, cb) shortens it by one element or leaves it as it
\* is; both leave the sequences of the four other kinds and the rest of the
\* game unchanged.
C20_OnlyOneKindChanges ==
  [][\A type \in Kinds, cb \in Callbacks :
       /\ ops' = Append(ops, <<"add", type, cb>>) =>
            /\ callbacks'[type] = Append(callbacks[type], cb)
            /\ \A k \in Kinds \ {type} : callbacks'[k] = callbacks[k]
            /\ UNCHANGED <<gameVars, tickVars>>
       /\ ops' = Append(ops, <<"remove", type, cb>>) =>
            /\ Len(callbacks'[type]) \in
                 {Len(callbacks[type]), Len(callbacks[type]) - 1}
            /\ \A k \in Kinds \ {type} : callbacks'[k] = callbacks[k]
            /\ UNCHANGED <<gameVars, tickVars>>]_vars

\* The last call removed a callback registered twice for its kind while
\* another kind had a subscriber.
C20_Witness ==
  /\ ops # << >>
  /\ LET op == ops[Len(ops)]
     IN  /\ op[1] = "remove"
         /\ Count(Replay(SubSeq(ops, 1, Len(ops) - 1), op[2]), op[3]) = 2
         /\ Count(callbacks[op[2]], op[3]) = 1
         /\ \E k \in Kinds \ {op[2]} : callbacks[k] # << >>

\* ------------------------------------------------------------------ C16

\* C16 as stated: the stored last-sample time never decreases.
C16_StoredTimeNeverDecreases ==
  [][lastFrameTime' >= lastFrameTime]_vars

\* C16 amended: the stored time changes only when the first frame callback
\* or loop() stores a clock reading; loop() stores the reading it took,
\* which is the previous stored time plus the time passed it computed, so
\* the stored time decreases exactly in the ticks whose reading is below
\* the previous one.
C16_StoredTimeFollowsClock ==
  /\ [][lastFrameTime' # lastFrameTime =>
          \/ pc = "idle" /\ IsFirstTick'
          \/ pc = "loop" /\ pc' = "run"]_vars
  /\ [][pc = "loop" /\ pc' = "run" =>
          /\ lastFrameTime' = lastFrameTime + dt'.num
          /\ (lastFrameTime' < lastFrameTime) <=> IsNegative(dt')
          /\ ~IsNegative(dt') => lastFrameTime' >= lastFrameTime]_vars

\* A tick whose reading was below the previous one has stored it and is in
\* its draw pass.
C16_Witness ==
  /\ pc = "run"
  /\ step = 2
  /\ IsNegative(dt)
  /\ lastFrameTime < MaxTime

\* ------------------------------------------------------------------ C17

\* How many entries of the tick log are the event ev of kind k.
Events(ev, k) == Cardinality({i \in 1..Len(log) : IsEvent(log[i], ev, k)})

\* C17: a tick samples the clock once, at its start, and nothing later in
\* the tick changes the stored time or the dt; by its end it has begun one
\* update dispatch and one draw dispatch; the dt of a tick is (its reading
\* minus the stored time) / 1000 and its reading becomes the stored time;
\* and the dts passed to update so far add up to (the stored time minus the
\* reading stored by the first frame callback) / 1000.
C17_OneSamplePerTick ==
  /\ [](/\ elapsed.num = lastFrameTime - resetTime
        /\ elapsed.den = MsPerSecond)
  /\ [][pc = "loop" => pc' = "run"]_vars
  /\ [][pc = "loop" /\ pc' = "run" =>
          /\ dt'.num = lastFrameTime' - lastFrameTime
          /\ dt'.den = MsPerSecond
          /\ elapsed' = Plus(elapsed, dt')]_vars
  /\ [][pc = "run" =>
          /\ lastFrameTime' = lastFrameTime
          /\ elapsed' = elapsed
          /\ pc' = "run" => dt' = dt]_vars
  /\ [][pc = "run" /\ pc' = "idle" =>
          /\ Events("begin", "update") = 1
          /\ Events("begin", "draw") = 1
          /\ Events("end", "update") = 1]_vars

\* A tick whose reading equals the stored time is running after an earlier
\* tick whose reading was above it: the dts so far add up to the time
\* since the first frame callback.
C17_Witness ==
  /\ pc = "run"
  /\ step = 2
  /\ dt.num = 0
  /\ elapsed.num > 0
  /\ lastFrameTime = resetTime + elapsed.num
  /\ CallsOf("update") # << >>

\* ------------------------------------------------------------------ C18

C19_LoopRunsForever ==
  /\ [][pc = "run" /\ pc' = "idle" => rafQueue' = <<"loop">>]_vars
  /\ (pc = "run" /\ step = 1) ~>
       (state = "Stopped" \/ (pc = "idle" /\ rafQueue = <<"loop">>))
  /\ (pc = "idle" /\ rafQueue = <<"loop">>) ~>
       (state = "Stopped" \/ (pc = "run" /\ step = 1))

\* A tick of a running loop has ended and the frame callback it registered
\* has started the next one, with a failing subscriber registered.
C19_Witness ==
  /\ state = "Running"
  /\ pc = "loop"
  /\ ~IsFirstTick
  /\ rafQueue = << >>
  /\ "thrower" \in Range(callbacks["update"])

\* ------------------------------------------------------------------ C21

\* C21 as stated: Service.remove(name) leaves the container without an entry
\* under name, whatever service was added under it, leaves every other
\* entry as it was, and changes nothing when there was no entry.
C21_RemoveLeavesNoEntry ==
  [][\A name \in Names :
       ServiceRemove(name) =>
         /\ CONTAINER'[name] = NoEntry
         /\ \A other \in Names \ {name} : CONTAINER'[other] = CONTAINER[other]
         /\ CONTAINER[name] = NoEntry => CONTAINER' = CONTAINER]_vars

\* ------------------------------------------------------------------ C22

\* Service.get throws for every name.
NothingToGet(container) == \A name \in Names : get(container, name).threw

\* C22 as stated: Service.clear() leaves the container as it was created,
\* whatever was added and removed before; Service.get then throws for every
\* name, and goes on doing so until a Service.add.
C22_ClearEmptiesContainer ==
  /\ [][ServiceClear =>
          /\ CONTAINER' = EmptyContainer
          /\ NothingToGet(CONTAINER')]_vars
  /\ [][/\ NothingToGet(CONTAINER)
        /\ \A name \in Names, service \in Services :
             CONTAINER' # add(CONTAINER, name, service)
        => NothingToGet(CONTAINER')]_vars

====
